---- MODULE Spec2Model ----
(***************************************************************************)
(* A model of s3nb's S3ContentsManager (src/s3nb/ipy3.py): a notebook      *)
(* contents manager that emulates directories over a flat S3 bucket.       *)
(*                                                                         *)
(* Python strings are sequences of one-character strings, so that strip,   *)
(* startswith, endswith, split and replace are computed as Python computes *)
(* them.  Python's None is the tagged record NoneV; every value a handler  *)
(* returns is a tagged record, so that values of different kinds compare.  *)
(***************************************************************************)
EXTENDS Integers, Sequences, FiniteSets, TLC

VARIABLES
    s3_prefix,          \* self.s3_prefix, fixed at construction
    s3_key_delimiter,   \* self.s3_key_delimiter, fixed at construction
    store,              \* the bucket: a function from key names to objects
    ret,                \* the last completed call: arguments, store calls, outcome
    pc,                 \* per concurrent rename request: its position in rename
    loc                 \* per concurrent rename request: its old_path, new_path

vars == <<s3_prefix, s3_key_delimiter, store, ret, pc, loc>>

----------------------------------------------------------------------------
(* Bounds *)

\* number of distinct notebook bodies a client may save
MaxBody == 1

\* number of rename requests that may be in flight at once
NumProcs == 2

Procs == 1..NumProcs

----------------------------------------------------------------------------
(* Strings *)

NoneV == [k |-> "None"]

IPYNB == <<".", "i", "p", "y", "n", "b">>

S3Scheme == <<"s", "3", ":", "/", "/">>

\* str.startswith
StartsWith(s, pre) ==
    /\ Len(pre) <= Len(s)
    /\ SubSeq(s, 1, Len(pre)) = pre

\* str.endswith
EndsWith(s, suf) ==
    /\ Len(suf) <= Len(s)
    /\ SubSeq(s, Len(s) - Len(suf) + 1, Len(s)) = suf

RECURSIVE LStrip(_, _)
LStrip(s, d) ==
    IF s # <<>> /\ Head(s) = d THEN LStrip(Tail(s), d) ELSE s

RECURSIVE RStrip(_, _)
RStrip(s, d) ==
    IF s # <<>> /\ s[Len(s)] = d THEN RStrip(SubSeq(s, 1, Len(s) - 1), d) ELSE s

\* str.strip(d) for a one-character d
Strip(s, d) == RStrip(LStrip(s, d), d)

\* str.split(d): every segment between occurrences of the character d
RECURSIVE Split(_, _)
Split(s, d) ==
    IF \E i \in 1..Len(s) : s[i] = d
    THEN LET i == CHOOSE j \in 1..Len(s) :
                      s[j] = d /\ \A h \in 1..(j - 1) : s[h] # d
         IN  <<SubSeq(s, 1, i - 1)>> \o Split(SubSeq(s, i + 1, Len(s)), d)
    ELSE <<s>>

\* str.split(d, 1): cut at the first occurrence of d only
Split1(s, d) ==
    IF \E i \in 1..Len(s) : s[i] = d
    THEN LET i == CHOOSE j \in 1..Len(s) :
                      s[j] = d /\ \A h \in 1..(j - 1) : s[h] # d
         IN  <<SubSeq(s, 1, i - 1), SubSeq(s, i + 1, Len(s))>>
    ELSE <<s>>

\* str.replace(old, ''): drop every non-overlapping occurrence, left to right
RECURSIVE Remove(_, _)
Remove(s, old) ==
    IF s = <<>> \/ old = <<>> THEN s
    ELSE IF StartsWith(s, old)
         THEN Remove(SubSeq(s, Len(old) + 1, Len(s)), old)
         ELSE <<Head(s)>> \o Remove(Tail(s), old)

\* byte order of the characters that occur in keys
Alphabet == <<".", "/", "3", ":", "a", "b", "d", "i", "k", "n", "p", "s", "y">>

Ord(c) == CHOOSE i \in 1..Len(Alphabet) : Alphabet[i] = c

\* s sorts strictly before t in the byte order S3 lists keys in
RECURSIVE LexLess(_, _)
LexLess(s, t) ==
    IF t = <<>> THEN FALSE
    ELSE IF s = <<>> THEN TRUE
    ELSE IF Head(s) = Head(t) THEN LexLess(Tail(s), Tail(t))
    ELSE Ord(Head(s)) < Ord(Head(t))

\* the strings of S as a sequence in byte order
RECURSIVE Sorted(_)
Sorted(S) ==
    IF S = {} THEN <<>>
    ELSE LET m == CHOOSE x \in S : \A y \in S \ {x} : LexLess(x, y)
         IN  <<m>> \o Sorted(S \ {m})

----------------------------------------------------------------------------
(* Construction *)

\* _parse_s3_uri: the uri without "s3://", cut at the first delimiter
_parse_s3_uri(uri, delimiter) ==
    IF ~StartsWith(uri, S3Scheme)
    THEN [k |-> "Exception"]
    ELSE [k |-> "ok", v |-> Split1(SubSeq(uri, 6, Len(uri)), delimiter)]

\* __init__: bucket and prefix from the uri; the prefix is made to end with
\* the delimiter.  The two-name unpacking needs exactly two parts.
Construct(uri, delimiter) ==
    LET parsed == _parse_s3_uri(uri, delimiter) IN
    IF parsed.k # "ok" THEN [k |-> "Exception"]
    ELSE IF Len(parsed.v) # 2 THEN [k |-> "ValueError"]
    ELSE LET p == parsed.v[2] IN
         [k |-> "ok",
          s3_bucket |-> parsed.v[1],
          s3_prefix |-> IF EndsWith(p, <<delimiter>>) THEN p
                        ELSE p \o <<delimiter>>]

\* the s3_base_uri of the configuration explored: s3://bk/p
BaseURIs == {S3Scheme \o <<"b", "k", "/", "p">>}

\* the s3_key_delimiter values explored (the default)
Delimiters == {"/"}

----------------------------------------------------------------------------
(* Key codec *)

_path_to_s3_key(path) == s3_prefix \o Strip(path, s3_key_delimiter)

_path_to_s3_key_dir(path) ==
    IF path # <<>>
    THEN _path_to_s3_key(path) \o <<s3_key_delimiter>>
    ELSE _path_to_s3_key(path)

----------------------------------------------------------------------------
(* Notebook codec.  A notebook in memory is [k |-> "nb", nbformat, body]; a *)
(* serialized notebook, as stored, is [k |-> "json", nbformat, body]; any   *)
(* other object in the bucket is [k |-> "blob"].                            *)

\* the notebooks a client saves: one in format version 3, the others in
\* the current version 4
Notebooks ==
    {[k |-> "nb", nbformat |-> 3, body |-> 1]}
    \cup [k : {"nb"}, nbformat : {4}, body : 1..MaxBody]

Blob == [k |-> "blob"]

\* nbformat.write(nb, f, version=NO_CONVERT): the document's own version is kept
nbformat_write(nb) ==
    [k |-> "json", nbformat |-> nb.nbformat, body |-> nb.body]

\* (mutant) the document is read in its own version
nbformat_read_no_convert(data) ==
    IF data.k = "json"
    THEN [k |-> "ok", nb |-> [k |-> "nb", nbformat |-> data.nbformat, body |-> data.body]]
    ELSE [k |-> "Exception"]

\* nbformat.read(f, as_version=4): parse, then convert to version 4
nbformat_read(data) ==
    IF data.k = "json"
    THEN [k |-> "ok", nb |-> [k |-> "nb", nbformat |-> 4, body |-> data.body]]
    ELSE [k |-> "Exception"]

----------------------------------------------------------------------------
(* The bucket (boto) *)

\* bucket.get_key(name): the key, or None when absent
get_key(s, name) ==
    IF name \in DOMAIN s
    THEN [k |-> "key", name |-> name, last_modified |-> "GET_KEY", data |-> s[name]]
    ELSE NoneV

\* key.set_contents_from_file(f)
set_contents(s, name, data) ==
    [n \in DOMAIN s \cup {name} |-> IF n = name THEN data ELSE s[n]]

\* bucket.copy_key(dst, bucket, src): the destination is replaced if present
copy_key(s, dst, src) == set_contents(s, dst, s[src])

\* bucket.delete_key(name): no error when the key is absent
delete_key(s, name) == [n \in DOMAIN s \ {name} |-> s[n]]

\* what follows the listing prefix in a key name
Rest(name, prefix) == SubSeq(name, Len(prefix) + 1, Len(name))

\* bucket.list(prefix, delimiter): one level.  The keys under the prefix with
\* no further delimiter, then the common prefixes (up to and including the
\* next delimiter) of the others, each in byte order.
bucket_list(s, prefix, delimiter) ==
    LET under  == {n \in DOMAIN s : StartsWith(n, prefix)}
        direct == {n \in under : \A i \in 1..Len(Rest(n, prefix)) :
                                     Rest(n, prefix)[i] # delimiter}
        common == {prefix \o Split1(Rest(n, prefix), delimiter)[1] \o <<delimiter>> :
                       n \in under \ direct}
        keyEntry(n) == [k |-> "key", name |-> n, last_modified |-> "BUCKET_LIST"]
        preEntry(n) == [k |-> "prefix", name |-> n]
        ks == Sorted(direct)
        ps == Sorted(common)
    IN  [i \in 1..Len(ks) |-> keyEntry(ks[i])] \o [i \in 1..Len(ps) |-> preEntry(ps[i])]

----------------------------------------------------------------------------
(* Model builder *)

\* str.rsplit(d, n): cut at no more than the last n occurrences of d
RECURSIVE RSplit(_, _, _)
RSplit(s, d, n) ==
    IF n = 0 \/ \A i \in 1..Len(s) : s[i] # d
    THEN <<s>>
    ELSE LET i == CHOOSE j \in 1..Len(s) :
                      s[j] = d /\ \A h \in (j + 1)..Len(s) : s[h] # d
         IN  RSplit(SubSeq(s, 1, i - 1), d, n - 1) \o <<SubSeq(s, i + 1, Len(s))>>

\* _s3_key_dir_to_model(key): name is the second-to-last segment of the key
\* name (every key name passed holds the prefix, so has two parts or more)
_s3_key_dir_to_model(name) ==
    LET parts == RSplit(name, s3_key_delimiter, 2) IN
    [k |-> "model",
     name |-> parts[Len(parts) - 1],
     path |-> Remove(name, s3_prefix),
     type |-> "directory",
     content |-> NoneV,
     format |-> "None"]

\* _s3_key_notebook_to_model(key, timeformat), for a key whose last_modified
\* is in the time format the caller names
_s3_key_notebook_to_model(key) ==
    LET parts == RSplit(key.name, s3_key_delimiter, 1) IN
    [k |-> "model",
     name |-> parts[Len(parts)],
     path |-> Remove(key.name, s3_prefix),
     type |-> "notebook",
     content |-> NoneV,
     format |-> "None"]

----------------------------------------------------------------------------
(* Handlers, as functions of the bucket's state.  A handler's outcome is   *)
(* [status, code, msg, value, calls, store]: how it ended ("ok", or the    *)
(* exception raised, with web.HTTPError's code and message), what it       *)
(* returned, the bucket calls it made in order, and the bucket afterwards. *)

Outcome(status, code, msg, value, calls, s) ==
    [status |-> status, code |-> code, msg |-> msg, value |-> value,
     calls |-> calls, store |-> s]

Ok(value, calls, s) == Outcome("ok", 0, "", value, calls, s)

HTTPError(code, msg, calls, s) == Outcome("HTTPError", code, msg, NoneV, calls, s)

Raised(exc, calls, s) == Outcome(exc, 0, "", NoneV, calls, s)

\* the `type` argument of get when it is None
NoType == "None"

\* list_dirs: the entries of the one-level listing under the path's
\* directory key that pass `k.name.endswith(self.s3_key_delimiter)`
dir_entries(s, path) ==
    LET listing == bucket_list(s, _path_to_s3_key_dir(path), s3_key_delimiter)
        isDir(e) == EndsWith(e.name, <<s3_key_delimiter>>)
    IN  SelectSeq(listing, isDir)

\* list_notebooks: the entries of the one-level listing under the path's
\* directory key that pass `k.name.endswith('.ipynb')`
notebook_entries(s, path) ==
    LET listing == bucket_list(s, _path_to_s3_key_dir(path), s3_key_delimiter)
        isNb(e) == EndsWith(e.name, IPYNB)
    IN  SelectSeq(listing, isNb)

\* list_dirs(path): a directory model for every listed name that ends with
\* the delimiter
list_dirs(s, path) ==
    LET found == dir_entries(s, path)
    IN  [i \in 1..Len(found) |-> _s3_key_dir_to_model(found[i].name)]

\* list_notebooks(path): a notebook model for every listed name that ends
\* with .ipynb; a listed common prefix carries no last_modified to parse
list_notebooks(s, path) ==
    LET found == notebook_entries(s, path)
    IN  IF \E i \in 1..Len(found) : found[i].k # "key"
        THEN [k |-> "AttributeError"]
        ELSE [k |-> "ok",
              items |-> [i \in 1..Len(found) |-> _s3_key_notebook_to_model(found[i])]]

\* (mutant) the notebooks are put first
DirContent_swapped(dirs, notebooks) == notebooks \o dirs

\* the content of a directory model: list_dirs(path) + list_notebooks(path)
DirContent(dirs, notebooks) == dirs \o notebooks

\* get, `type == 'directory'` branch
get_directory(s, path, content) ==
    LET model == _s3_key_dir_to_model(_path_to_s3_key_dir(path))
        nbs   == list_notebooks(s, path)
    IN  IF ~content THEN Ok(model, <<>>, s)
        ELSE IF nbs.k # "ok" THEN Raised(nbs.k, <<"list", "list">>, s)
        ELSE Ok([model EXCEPT
                   !.content = [k |-> "list",
                                items |-> DirContent(list_dirs(s, path), nbs.items)],
                   !.format = "json"],
                <<"list", "list">>, s)

\* get, notebook branch
get_notebook(s, path, content) ==
    LET key   == _path_to_s3_key(path)
        k     == get_key(s, key)
        model == _s3_key_notebook_to_model(k)
        nb    == nbformat_read(k.data)
    IN  IF k = NoneV THEN HTTPError(400, "not found", <<"get_key">>, s)
        ELSE IF ~content THEN Ok(model, <<"get_key">>, s)
        ELSE IF nb.k # "ok"
             THEN HTTPError(400, "Unreadable Notebook", <<"get_key", "get_file">>, s)
        ELSE Ok([model EXCEPT !.content = nb.nb, !.format = "json"],
                <<"get_key", "get_file">>, s)

\* which branch of get a call takes
GetBranch(path, type) ==
    IF type = "directory" THEN "directory"
    ELSE IF type = "notebook" \/ (type = NoType /\ EndsWith(path, IPYNB))
         THEN "notebook"
    ELSE "none"

\* get(path, content, type): falls off the end, returning None, when neither
\* branch is taken
get(s, path, content, type) ==
    CASE GetBranch(path, type) = "directory" -> get_directory(s, path, content)
      [] GetBranch(path, type) = "notebook"  -> get_notebook(s, path, content)
      [] OTHER -> Ok(NoneV, <<>>, s)

\* (mutant) delete looks the key up first and refuses an absent one
delete_checked(s, path) ==
    IF _path_to_s3_key(path) \in DOMAIN s
    THEN Ok(NoneV, <<"get_key", "delete_key">>, delete_key(s, _path_to_s3_key(path)))
    ELSE HTTPError(404, "not found", <<"get_key">>, s)

\* delete(path)
delete(s, path) ==
    Ok(NoneV, <<"delete_key">>, delete_key(s, _path_to_s3_key(path)))

\* a Python bool
Bool(b) == [k |-> "bool", v |-> b]

\* dir_exists: the key whose listing is looked at, `self._path_to_s3_key(path)`
dir_exists_key(path) == _path_to_s3_key(path)

\* dir_exists(path): whether the one-level listing under that key yields
\* anything
dir_exists(s, path) ==
    LET listing == bucket_list(s, dir_exists_key(path), s3_key_delimiter)
    IN  Ok(Bool(Len(listing) > 0), <<"list">>, s)

\* file_exists: the name looked up, `self.bucket.get_key(path)`
file_exists_key(path) == path

\* file_exists(path): False for the empty path; otherwise whether get_key
\* finds a key and its name does not end with the delimiter
file_exists(s, path) ==
    LET k == get_key(s, file_exists_key(path))
    IN  IF path = <<>> THEN Ok(Bool(FALSE), <<>>, s)
        ELSE Ok(Bool(k # NoneV /\ ~EndsWith(k.name, <<s3_key_delimiter>>)),
                <<"get_key">>, s)

\* (mutant) the equal-paths return is missing
rename_same_never(old_path, new_path) == FALSE

\* rename: `if new_path == old_path: return`
rename_same(old_path, new_path) == new_path = old_path

\* (mutant) the destination is not looked up
rename_conflict_unchecked(s, dst_key) == FALSE

\* rename: `if self.bucket.get_key(dst_key)`
rename_conflict(s, dst_key) == get_key(s, dst_key) # NoneV

\* (mutant) the copy is a move: the source is gone as soon as the copy is made
rename_copy_move(s, src_key, dst_key) ==
    IF src_key \in DOMAIN s
    THEN [k |-> "ok", store |-> delete_key(copy_key(s, dst_key, src_key), src_key)]
    ELSE [k |-> "S3ResponseError", store |-> s]

\* rename: bucket.copy_key(dst_key, bucket, src_key); S3 answers a copy of
\* an absent source with an error, which boto raises
rename_copy(s, src_key, dst_key) ==
    IF src_key \in DOMAIN s
    THEN [k |-> "ok", store |-> copy_key(s, dst_key, src_key)]
    ELSE [k |-> "S3ResponseError", store |-> s]

\* (mutant) the source is left in place
rename_delete_skipped(s, src_key) == s

\* rename: bucket.delete_key(src_key)
rename_delete(s, src_key) == delete_key(s, src_key)

\* rename(old_path, new_path), run from call to return with nothing between
rename(s, old_path, new_path) ==
    LET src_key == _path_to_s3_key(old_path)
        dst_key == _path_to_s3_key(new_path)
        copied  == rename_copy(s, src_key, dst_key)
    IN  IF rename_same(old_path, new_path) THEN Ok(NoneV, <<>>, s)
        ELSE IF rename_conflict(s, dst_key)
             THEN HTTPError(409, "Notebook with name already exists", <<"get_key">>, s)
        ELSE IF copied.k # "ok"
             THEN Raised(copied.k, <<"get_key", "copy_key">>, s)
        ELSE Ok(NoneV, <<"get_key", "copy_key", "delete_key">>,
                rename_delete(copied.store, src_key))

\* _save_notebook(path, nb): serialize without conversion and put
_save_notebook(s, path, nb) ==
    set_contents(s, _path_to_s3_key(path), nbformat_write(nb))

\* save: the checks made before anything is written
save_invalid(model) ==
    IF "type" \notin DOMAIN model THEN "No file type provided"
    ELSE IF "content" \notin DOMAIN model /\ model.type # "directory"
         THEN "No file content provided"
    ELSE ""

\* (mutant) a file is passed over like a directory
save_dispatch_file_pass(s, model, path) ==
    CASE model.type = "notebook" ->
             Ok(NoneV, <<"set_contents_from_file">>,
                _save_notebook(s, path, model.content))
      [] model.type \in {"file", "directory"} -> Ok(NoneV, <<>>, s)
      [] OTHER -> HTTPError(400, "Unhandled contents type", <<>>, s)

\* (mutant) the final else is missing: an unknown type is passed over
save_dispatch_no_else(s, model, path) ==
    CASE model.type = "notebook" ->
             Ok(NoneV, <<"set_contents_from_file">>,
                _save_notebook(s, path, model.content))
      [] model.type = "file" -> Raised("NotImplementedError", <<>>, s)
      [] OTHER -> Ok(NoneV, <<>>, s)

\* save: the dispatch on model['type'], to the bucket calls it makes
save_dispatch(s, model, path) ==
    CASE model.type = "notebook" ->
             Ok(NoneV, <<"set_contents_from_file">>,
                _save_notebook(s, path, model.content))
      [] model.type = "file" -> Raised("NotImplementedError", <<>>, s)
      [] model.type = "directory" -> Ok(NoneV, <<>>, s)
      [] OTHER -> HTTPError(400, "Unhandled contents type", <<>>, s)

\* save: `model = self.get(path, content=False)`
save_refetch(s, path) == get(s, path, FALSE, NoType)

\* save(model, path).  After the write the model is fetched again with
\* get(path, content=False); `model['content'] = None` then needs a model.
save(s, model, path) ==
    LET bad     == save_invalid(model)
        written == save_dispatch(s, model, path)
        fetched == save_refetch(written.store, path)
        calls   == written.calls \o fetched.calls
    IN  IF bad # "" THEN HTTPError(400, bad, <<>>, s)
        ELSE IF written.status # "ok" THEN written
        ELSE IF fetched.status # "ok"
             THEN [fetched EXCEPT !.calls = calls]
        ELSE IF fetched.value = NoneV
             THEN Raised("TypeError", calls, written.store)
        ELSE Ok([fetched.value EXCEPT !.content = NoneV], calls, written.store)

----------------------------------------------------------------------------
(* Inputs *)

PathA  == <<"a">> \o IPYNB
PathDA == <<"d", "/", "a">> \o IPYNB
PathSD == <<"/", "d", "/">>

\* the logical paths a client passes: "", a.ipynb, d/a.ipynb, /d/
Paths == {<<>>, PathA, PathDA, PathSD}

\* the `type` arguments a client passes to get
GetTypes == {NoType, "directory", "notebook", "file"}

Text == [k |-> "text"]

\* the models a client passes to save: dicts with and without 'type' and
\* 'content'
SaveModels ==
    {[name |-> "x"], [type |-> "notebook"], [type |-> "directory"],
     [type |-> "file", content |-> Text],
     [type |-> "other", content |-> Text]}
    \cup {[type |-> "notebook", content |-> nb] : nb \in Notebooks}

\* the paths of the requests that run concurrently
ConcPaths == {PathA, PathDA}

----------------------------------------------------------------------------
(* State machine: one call at a time *)

EmptyStore == [n \in {} |-> Blob]

NoLoc == [old_path |-> <<>>, new_path |-> <<>>]

\* a bucket is empty at first, or holds an object that is no notebook
InitStores(prefix) ==
    {EmptyStore, [n \in {prefix \o PathDA} |-> Blob]}

Init ==
    /\ \E uri \in BaseURIs, d \in Delimiters :
          /\ Construct(uri, d).k = "ok"
          /\ s3_prefix = Construct(uri, d).s3_prefix
          /\ s3_key_delimiter = d
    /\ store \in InitStores(s3_prefix)
    /\ ret = [op |-> "none"]
    /\ pc = [p \in Procs |-> "idle"]
    /\ loc = [p \in Procs |-> NoLoc]

\* what the caller of a finished call sees
Returned(op, args, out) ==
    [op |-> op, args |-> args, status |-> out.status, code |-> out.code,
     msg |-> out.msg, value |-> out.value, calls |-> out.calls]

Config == <<s3_prefix, s3_key_delimiter>>

Get(path, content, type) ==
    LET out == get(store, path, content, type) IN
    /\ ret' = Returned("get", [path |-> path, content |-> content, type |-> type], out)
    /\ store' = out.store
    /\ UNCHANGED <<Config, pc, loc>>

Delete(path) ==
    LET out == delete(store, path) IN
    /\ ret' = Returned("delete", [path |-> path], out)
    /\ store' = out.store
    /\ UNCHANGED <<Config, pc, loc>>

Save(model, path) ==
    LET out == save(store, model, path) IN
    /\ ret' = Returned("save", [model |-> model, path |-> path], out)
    /\ store' = out.store
    /\ UNCHANGED <<Config, pc, loc>>

\* rename, run from call to return with no other call between
Rename(old_path, new_path) ==
    LET out == rename(store, old_path, new_path) IN
    /\ ret' = Returned("rename", [old_path |-> old_path, new_path |-> new_path], out)
    /\ store' = out.store
    /\ UNCHANGED <<Config, pc, loc>>

Next ==
    \/ \E path \in Paths, content \in BOOLEAN, type \in GetTypes :
          Get(path, content, type)
    \/ \E path \in Paths : Delete(path)
    \/ \E model \in SaveModels, path \in Paths : Save(model, path)
    \/ \E old_path \in Paths, new_path \in Paths : Rename(old_path, new_path)

Spec == Init /\ [][Next]_vars

----------------------------------------------------------------------------
(* State machine: renames in flight.  A rename request p makes its bucket   *)
(* calls one at a time (get_key, copy_key, delete_key); between them other  *)
(* requests' calls take place: the calls of other renames, and whole saves  *)
(* and deletes.  A request whose delete_key raises, or whose process dies   *)
(* before it, ends at "stopped" with nothing undone.                        *)

src_key(p) == _path_to_s3_key(loc[p].old_path)

dst_key(p) == _path_to_s3_key(loc[p].new_path)

\* rename is called; equal paths return at once
RenameCall(p, old_path, new_path) ==
    /\ pc[p] = "idle"
    /\ ~rename_same(old_path, new_path)
    /\ pc' = [pc EXCEPT ![p] = "get_key"]
    /\ loc' = [loc EXCEPT ![p] = [old_path |-> old_path, new_path |-> new_path]]
    /\ UNCHANGED <<Config, store, ret>>

\* `if self.bucket.get_key(dst_key): raise web.HTTPError(409, ...)`
RenameGetKey(p) ==
    /\ pc[p] = "get_key"
    /\ IF rename_conflict(store, dst_key(p))
       THEN pc' = [pc EXCEPT ![p] = "idle"] /\ loc' = [loc EXCEPT ![p] = NoLoc]
       ELSE pc' = [pc EXCEPT ![p] = "copy_key"] /\ loc' = loc
    /\ UNCHANGED <<Config, store, ret>>

\* `self.bucket.copy_key(dst_key, self.bucket.name, src_key)`
RenameCopyKey(p) ==
    LET copied == rename_copy(store, src_key(p), dst_key(p)) IN
    /\ pc[p] = "copy_key"
    /\ store' = copied.store
    /\ IF copied.k = "ok"
       THEN pc' = [pc EXCEPT ![p] = "delete_key"] /\ loc' = loc
       ELSE pc' = [pc EXCEPT ![p] = "idle"] /\ loc' = [loc EXCEPT ![p] = NoLoc]
    /\ UNCHANGED <<Config, ret>>

\* `self.bucket.delete_key(src_key)`, and return
RenameDeleteKey(p) ==
    /\ pc[p] = "delete_key"
    /\ store' = rename_delete(store, src_key(p))
    /\ pc' = [pc EXCEPT ![p] = "idle"]
    /\ loc' = [loc EXCEPT ![p] = NoLoc]
    /\ UNCHANGED <<Config, ret>>

\* what rename does about a copy it made when it cannot go on: nothing
rename_rollback(s, p) == s

\* the request ends between copy_key and the return of delete_key
RenameStop(p) ==
    /\ pc[p] = "delete_key"
    /\ store' = rename_rollback(store, p)
    /\ pc' = [pc EXCEPT ![p] = "stopped"]
    /\ UNCHANGED <<Config, ret, loc>>

\* the stopped request is gone
RenameGone(p) ==
    /\ pc[p] = "stopped"
    /\ pc' = [pc EXCEPT ![p] = "idle"]
    /\ loc' = [loc EXCEPT ![p] = NoLoc]
    /\ UNCHANGED <<Config, store, ret>>

\* another request's save(model, path), whole
OtherSave(model, path) ==
    /\ store' = save(store, model, path).store
    /\ UNCHANGED <<Config, ret, pc, loc>>

\* another request's delete(path)
OtherDelete(path) ==
    /\ store' = delete(store, path).store
    /\ UNCHANGED <<Config, ret, pc, loc>>

ConcNext ==
    \/ \E p \in Procs, old_path \in ConcPaths, new_path \in ConcPaths :
          RenameCall(p, old_path, new_path)
    \/ \E p \in Procs : RenameGetKey(p)
    \/ \E p \in Procs : RenameCopyKey(p)
    \/ \E p \in Procs : RenameDeleteKey(p)
    \/ \E p \in Procs : RenameStop(p)
    \/ \E p \in Procs : RenameGone(p)
    \/ \E nb \in Notebooks, path \in ConcPaths :
          OtherSave([type |-> "notebook", content |-> nb], path)
    \/ \E path \in ConcPaths : OtherDelete(path)

ConcSpec == Init /\ [][ConcNext]_vars

----------------------------------------------------------------------------
(* Properties *)

Calls(r) == {r.calls[i] : i \in 1..Len(r.calls)}

OldKey(r) == _path_to_s3_key(r.args.old_path)

NewKey(r) == _path_to_s3_key(r.args.new_path)

\* the keys on which two bucket states differ
Differ(s, t) ==
    {n \in DOMAIN s \cup DOMAIN t :
        ~(n \in DOMAIN s /\ n \in DOMAIN t /\ s[n] = t[n])}

\* C1: rename(X, Y) with X # Y, called when Y's key holds an object, fails
\* with HTTPError 409, makes neither the copy nor the delete, and leaves the
\* bucket as it was.
C1_RenameConflict ==
    [][(/\ ret'.op = "rename"
        /\ ret'.args.old_path # ret'.args.new_path
        /\ NewKey(ret') \in DOMAIN store)
       => (/\ ret'.status = "HTTPError"
           /\ ret'.code = 409
           /\ Calls(ret') \cap {"copy_key", "delete_key"} = {}
           /\ store' = store)]_vars

\* a rename has been refused while source and destination held different
\* objects, and they still do
C1_Witness ==
    /\ ret.op = "rename"
    /\ ret.status = "HTTPError"
    /\ ret.code = 409
    /\ OldKey(ret) # NewKey(ret)
    /\ OldKey(ret) \in DOMAIN store
    /\ NewKey(ret) \in DOMAIN store
    /\ store[OldKey(ret)] # store[NewKey(ret)]

\* C2: a rename(X, Y) run without interleaving, X # Y, with an object at X's
\* key and none at Y's, ends with Y's key holding what X's key held, X's key
\* absent, and every other key as it was.
C2_RenameMoves ==
    [][(/\ ret'.op = "rename"
        /\ ret'.args.old_path # ret'.args.new_path
        /\ OldKey(ret') \in DOMAIN store
        /\ NewKey(ret') \notin DOMAIN store)
       => (/\ ret'.status = "ok"
           /\ NewKey(ret') \in DOMAIN store'
           /\ store'[NewKey(ret')] = store[OldKey(ret')]
           /\ OldKey(ret') \notin DOMAIN store'
           /\ Differ(store, store') \subseteq {OldKey(ret'), NewKey(ret')})]_vars

\* a rename has moved an object while another key held an object
C2_Witness ==
    /\ ret.op = "rename"
    /\ ret.status = "ok"
    /\ ret.calls = <<"get_key", "copy_key", "delete_key">>
    /\ NewKey(ret) \in DOMAIN store
    /\ OldKey(ret) \notin DOMAIN store
    /\ DOMAIN store \ {NewKey(ret)} # {}

\* C3: rename(X, X) returns without error, makes no bucket call and leaves
\* the bucket as it was, whatever the bucket holds.
C3_RenameSame ==
    [][(/\ ret'.op = "rename"
        /\ ret'.args.old_path = ret'.args.new_path)
       => (/\ ret'.status = "ok"
           /\ ret'.calls = <<>>
           /\ store' = store)]_vars

\* rename(X, X) has returned while X's key held an object
C3_Witness ==
    /\ ret.op = "rename"
    /\ ret.args.old_path = ret.args.new_path
    /\ ret.status = "ok"
    /\ OldKey(ret) \in DOMAIN store

\* C4: renames are collision-safe: whatever other saves and renames do
\* between a rename's get_key and its copy_key, the copy never replaces an
\* object that the destination key holds when the copy is made.
C4_CollisionSafe ==
    [][\A p \in Procs :
          (pc[p] = "copy_key" /\ pc'[p] = "delete_key")
          => dst_key(p) \notin DOMAIN store]_vars

\* C5: rename is not atomic: once its copy is made, the source key and the
\* destination key both hold the object; and when the request ends before
\* its delete is done, the bucket stays as the copy left it.
C5_RenameNotAtomic ==
    [][\A p \in Procs :
          /\ (pc[p] = "copy_key" /\ pc'[p] = "delete_key")
             => (/\ src_key(p) \in DOMAIN store'
                 /\ dst_key(p) \in DOMAIN store'
                 /\ store'[dst_key(p)] = store'[src_key(p)])
          /\ (pc[p] = "delete_key" /\ pc'[p] = "stopped")
             => store' = store]_vars

\* a rename has ended after its copy, and both keys hold the object
C5_Witness ==
    \E p \in Procs :
        /\ pc[p] = "stopped"
        /\ src_key(p) # dst_key(p)
        /\ src_key(p) \in DOMAIN store
        /\ dst_key(p) \in DOMAIN store
        /\ store[src_key(p)] = store[dst_key(p)]

\* the notebook branch of get is the one a call with these arguments takes
ReadsNotebook(r) == r.args.content /\ r.args.type \in {NoType, "notebook"}

SavedNotebook(r) ==
    /\ r.op = "save"
    /\ r.status = "ok"
    /\ "type" \in DOMAIN r.args.model
    /\ r.args.model.type = "notebook"

HasType(r, type) ==
    "type" \in DOMAIN r.args.model /\ r.args.model.type = type

\* C7: save of a model with type file and content always raises the
\* not-implemented error, makes no bucket call and leaves the bucket as it was.
C7_SaveFile ==
    [][(/\ ret'.op = "save"
        /\ HasType(ret', "file")
        /\ "content" \in DOMAIN ret'.args.model)
       => (/\ ret'.status = "NotImplementedError"
           /\ ret'.calls = <<>>
           /\ store' = store)]_vars

\* a file save has been refused on a bucket that holds objects
C7_Witness ==
    /\ ret.op = "save"
    /\ HasType(ret, "file")
    /\ ret.status = "NotImplementedError"
    /\ DOMAIN store # {}

\* C8: save of a model with type directory writes nothing, completes
\* normally for every path and returns the re-fetched model with content None.
C8_SaveDirectory ==
    [][(ret'.op = "save" /\ HasType(ret', "directory"))
       => (/\ ret'.status = "ok"
           /\ ret'.value # NoneV
           /\ ret'.value.content = NoneV
           /\ "set_contents_from_file" \notin Calls(ret')
           /\ store' = store)]_vars

\* C9: save of a model with no type, of a model with no content whose type
\* is not directory, and of a model whose type is none of notebook, file,
\* directory fails with HTTPError 400, with no bucket call made and the
\* bucket as it was.
C9_SaveValidates ==
    [][(/\ ret'.op = "save"
        /\ \/ "type" \notin DOMAIN ret'.args.model
           \/ ("content" \notin DOMAIN ret'.args.model
                  /\ ret'.args.model.type # "directory")
           \/ ret'.args.model.type \notin {"notebook", "file", "directory"})
       => (/\ ret'.status = "HTTPError"
           /\ ret'.code = 400
           /\ ret'.calls = <<>>
           /\ store' = store)]_vars

\* a save of a model of unknown type, content given, has been refused on a
\* bucket that holds objects
C9_Witness ==
    /\ ret.op = "save"
    /\ HasType(ret, "other")
    /\ "content" \in DOMAIN ret.args.model
    /\ ret.status = "HTTPError"
    /\ ret.msg = "Unhandled contents type"
    /\ DOMAIN store # {}

\* the last call was get(path, type='directory') with this `content`
GotDirectory(content) ==
    /\ ret.op = "get"
    /\ ret.args.type = "directory"
    /\ ret.args.content = content

\* C10: get(path, type='directory', content=True) returns a model of type
\* directory and format json whose content is list_dirs(path) followed by
\* list_notebooks(path), every directory before every notebook, and the
\* empty sequence for path "" on an empty bucket; with content=False the
\* model's content and format are None.
C10_GetDirectory ==
    /\ GotDirectory(TRUE) =>
          /\ ret.status = "ok"
          /\ ret.value.type = "directory"
          /\ ret.value.format = "json"
          /\ ret.value.content.k = "list"
          /\ ret.value.content.items
                = list_dirs(store, ret.args.path)
                    \o list_notebooks(store, ret.args.path).items
          /\ \A i, j \in 1..Len(ret.value.content.items) :
                (/\ ret.value.content.items[i].type = "directory"
                 /\ ret.value.content.items[j].type = "notebook") => i < j
          /\ (store = EmptyStore /\ ret.args.path = <<>>)
                => ret.value.content.items = <<>>
    /\ GotDirectory(FALSE) =>
          /\ ret.status = "ok"
          /\ ret.value.type = "directory"
          /\ ret.value.content = NoneV
          /\ ret.value.format = "None"

\* a directory has been read whose content holds a directory and a notebook
C10_Witness ==
    /\ GotDirectory(TRUE)
    /\ ret.status = "ok"
    /\ \E i, j \in 1..Len(ret.value.content.items) :
          /\ ret.value.content.items[i].type = "directory"
          /\ ret.value.content.items[j].type = "notebook"

----------------------------------------------------------------------------
(* State machine: the key codec and the listings, over the configurations   *)
(* a manager can be constructed with.                                       *)

\* the s3_base_uri values tried: s3://bk/p, s3://bk/, s3://bk, bk/p
CodecURIs ==
    {S3Scheme \o <<"b", "k", "/", "p">>,
     S3Scheme \o <<"b", "k", "/">>,
     S3Scheme \o <<"b", "k">>,
     <<"b", "k", "/", "p">>}

\* the s3_key_delimiter values tried: the default, and the last character of
\* the notebook extension
CodecDelimiters == {"/", "b"}

\* the logical paths passed: "", /, a.ipynb, d/a.ipynb
CodecPaths == {<<>>, <<"/">>, PathA, PathDA}

\* the paths saved to and deleted
CodecSavePaths == {PathA, PathDA}

CodecInit ==
    /\ \E uri \in CodecURIs, d \in CodecDelimiters :
          /\ Construct(uri, d).k = "ok"
          /\ s3_prefix = Construct(uri, d).s3_prefix
          /\ s3_key_delimiter = d
    /\ store \in InitStores(s3_prefix)
    /\ ret = [op |-> "none"]
    /\ pc = [p \in Procs |-> "idle"]
    /\ loc = [p \in Procs |-> NoLoc]

\* what the caller of a finished call sees, with the key names the call
\* passed to the bucket and the names of the listed entries it kept
Observed(op, args, out, keys, names) ==
    [op |-> op, args |-> args, status |-> out.status, code |-> out.code,
     msg |-> out.msg, value |-> out.value, calls |-> out.calls,
     keys |-> keys, names |-> names]

Names(entries) == [i \in 1..Len(entries) |-> entries[i].name]

\* another manager is constructed: __init__ with this configuration
Construction(uri, delimiter) ==
    LET made == Construct(uri, delimiter) IN
    /\ ret' = [op |-> "__init__",
               args |-> [s3_base_uri |-> uri, s3_key_delimiter |-> delimiter],
               status |-> made.k,
               value |-> IF made.k = "ok"
                         THEN [s3_bucket |-> made.s3_bucket,
                               s3_prefix |-> made.s3_prefix]
                         ELSE NoneV]
    /\ UNCHANGED <<Config, store, pc, loc>>

ListDirs(path) ==
    /\ ret' = Observed("list_dirs", [path |-> path],
                       Ok([k |-> "list", items |-> list_dirs(store, path)],
                          <<"list">>, store),
                       <<_path_to_s3_key_dir(path)>>,
                       Names(dir_entries(store, path)))
    /\ UNCHANGED <<Config, store, pc, loc>>

ListNotebooks(path) ==
    LET nbs == list_notebooks(store, path) IN
    /\ ret' = Observed("list_notebooks", [path |-> path],
                       IF nbs.k = "ok"
                       THEN Ok([k |-> "list", items |-> nbs.items], <<"list">>, store)
                       ELSE Raised(nbs.k, <<"list">>, store),
                       <<_path_to_s3_key_dir(path)>>,
                       IF nbs.k = "ok" THEN Names(notebook_entries(store, path))
                       ELSE <<>>)
    /\ UNCHANGED <<Config, store, pc, loc>>

DirExists(path) ==
    /\ ret' = Observed("dir_exists", [path |-> path], dir_exists(store, path),
                       <<dir_exists_key(path)>>, <<>>)
    /\ UNCHANGED <<Config, store, pc, loc>>

FileExists(path) ==
    LET out == file_exists(store, path) IN
    /\ ret' = Observed("file_exists", [path |-> path], out,
                       IF out.calls = <<>> THEN <<>> ELSE <<file_exists_key(path)>>,
                       <<>>)
    /\ UNCHANGED <<Config, store, pc, loc>>

CodecNext ==
    \/ \E uri \in CodecURIs, d \in CodecDelimiters : Construction(uri, d)
    \/ \E path \in CodecPaths : ListDirs(path)
    \/ \E path \in CodecPaths : ListNotebooks(path)
    \/ \E path \in CodecPaths : DirExists(path)
    \/ \E path \in CodecPaths : FileExists(path)
    \/ \E path \in CodecPaths, content \in BOOLEAN, type \in {NoType, "directory"} :
          Get(path, content, type)
    \/ \E nb \in Notebooks, path \in CodecSavePaths :
          Save([type |-> "notebook", content |-> nb], path)
    \/ \E path \in CodecSavePaths : Delete(path)

CodecSpec == CodecInit /\ [][CodecNext]_vars

----------------------------------------------------------------------------
(* Properties of the listings, the existence tests, delete, construction    *)
(* and the key codec.                                                       *)

\* the entries of the one-level listing that a call of list_dirs or
\* list_notebooks for this path iterates over
Listing(path) ==
    bucket_list(store, _path_to_s3_key_dir(path), s3_key_delimiter)

Listed(r) == r.op \in {"list_dirs", "list_notebooks"}

\* C11: for every bucket state, path and configured delimiter, list_dirs
\* keeps only entries whose name ends with the delimiter, list_notebooks
\* keeps only entries whose name ends with .ipynb, and no entry of the one
\* listing passes both filters.
C11_ListsExclusive ==
    /\ ret.op = "list_dirs" =>
          \A i \in 1..Len(ret.names) : EndsWith(ret.names[i], <<s3_key_delimiter>>)
    /\ ret.op = "list_notebooks" =>
          \A i \in 1..Len(ret.names) : EndsWith(ret.names[i], IPYNB)
    /\ Listed(ret) =>
          \A i \in 1..Len(Listing(ret.args.path)) :
              ~(/\ EndsWith(Listing(ret.args.path)[i].name, <<s3_key_delimiter>>)
                /\ EndsWith(Listing(ret.args.path)[i].name, IPYNB))

\* C12: file_exists("") is False; for a non-empty path P it is True exactly
\* when the bucket holds an object at P's key, prefix + P, and that key does
\* not end with the delimiter.
C12_FileExists ==
    ret.op = "file_exists" =>
        /\ ret.status = "ok"
        /\ ret.args.path = <<>> => ret.value = Bool(FALSE)
        /\ ret.args.path # <<>> =>
              ret.value = Bool(/\ _path_to_s3_key(ret.args.path) \in DOMAIN store
                               /\ ~EndsWith(_path_to_s3_key(ret.args.path),
                                            <<s3_key_delimiter>>))

\* C13: delete(path) makes the one call delete_key and no look-up, raises
\* nothing whether or not the key is there, changes no key but the path's,
\* leaves that key absent, and a second delete(path) leaves the bucket as the
\* first left it.
C13_DeleteIdempotent ==
    [][ret'.op = "delete"
       => (/\ ret'.status = "ok"
           /\ ret'.calls = <<"delete_key">>
           /\ Differ(store, store') \subseteq {_path_to_s3_key(ret'.args.path)}
           /\ _path_to_s3_key(ret'.args.path) \notin DOMAIN store'
           /\ delete(store', ret'.args.path).store = store')]_vars

\* a delete of a path whose key was not the only one: other keys are there
\* after it
C13_Witness ==
    /\ ret.op = "delete"
    /\ ret.status = "ok"
    /\ store # EmptyStore
    /\ _path_to_s3_key(ret.args.path) \notin DOMAIN store

\* the exceptions of the bucket's client (boto.exception)
StoreErrors == {"S3ResponseError"}

\* C14: no call of the manager ends with the exception of a failed bucket
\* call; a failed bucket call shows as one of the manager's own errors.
C14_NoRawError ==
    ret.op # "none" => ret.status \notin StoreErrors

\* C15: construction with a uri that starts with s3:// succeeds, with a
\* prefix that ends with the delimiter; with any other uri it raises the
\* scheme error.
C15_Construction ==
    ret.op = "__init__" =>
        IF StartsWith(ret.args.s3_base_uri, S3Scheme)
        THEN /\ ret.status = "ok"
             /\ EndsWith(ret.value.s3_prefix, <<ret.args.s3_key_delimiter>>)
        ELSE ret.status = "Exception"

\* C16: the prefix ends with the delimiter and no call changes it, and every
\* key name a call passes to the bucket starts with the prefix.
C16_KeyPrefix ==
    [][/\ s3_prefix' = s3_prefix
       /\ EndsWith(s3_prefix', <<s3_key_delimiter'>>)
       /\ "keys" \in DOMAIN ret' =>
             \A i \in 1..Len(ret'.keys) : StartsWith(ret'.keys[i], s3_prefix')]_vars

\* C17: the directory key of the empty path is the prefix; of a non-empty
\* path it is prefix + stripped path + delimiter; and it never ends with two
\* delimiters.
C17_DirKey ==
    ret.op = "list_dirs" =>
        /\ ret.keys[1] = IF ret.args.path = <<>> THEN s3_prefix
                         ELSE s3_prefix
                                \o Strip(ret.args.path, s3_key_delimiter)
                                \o <<s3_key_delimiter>>
        /\ ~EndsWith(ret.keys[1], <<s3_key_delimiter, s3_key_delimiter>>)

\* C18: for a path with no leading or trailing delimiter, the notebook model
\* get returns for it has that path as its `path`.
C18_PathRoundTrip ==
    (/\ ret.op = "get"
     /\ ret.status = "ok"
     /\ ret.value # NoneV
     /\ ret.value.type = "notebook"
     /\ Strip(ret.args.path, s3_key_delimiter) = ret.args.path)
    => ret.value.path = ret.args.path

\* C19: dir_exists(P) is True only if some key of the bucket starts with
\* P's directory key.
C19_DirExists ==
    (ret.op = "dir_exists" /\ ret.value = Bool(TRUE))
    => \E n \in DOMAIN store : StartsWith(n, _path_to_s3_key_dir(ret.args.path))

\* C20: get changes nothing in the bucket and either returns a model of type
\* directory or notebook or raises HTTPError; it never returns nothing.
C20_GetTotal ==
    [][ret'.op = "get"
       => (/\ store' = store
           /\ ret'.status \in {"ok", "HTTPError"}
           /\ ret'.status = "ok" =>
                 /\ ret'.value # NoneV
                 /\ ret'.value.type \in {"directory", "notebook"})]_vars

====
